---- MODULE Spec2Model ----
(***************************************************************************)
(* A model of DataQualityValidator (src/data_quality_validator.py): the    *)
(* session-wide quality report and the fixed pipeline of checks that       *)
(* validate_and_clean threads a working DataFrame through.                 *)
(*                                                                         *)
(* A DataFrame is a record [columns, dtypes, rows]: the ordered column     *)
(* names, the dtype of each column, and the rows in order, each row a      *)
(* function from column name to cell.  A cell is a record [t, n, d, s]:    *)
(*   t = "num"  a number, the rational n/d in lowest terms (d > 0)         *)
(*   t = "str"  a Python str, s its characters                             *)
(*   t = "bool" a boolean, n = 1 for True and 0 for False                  *)
(*   t = "na"   the missing marker (None / NaN / <NA>)                     *)
(* The pandas operations the validator calls (duplicated, dropna, fillna,  *)
(* to_numeric, astype, str.match, quantile, ...) are modelled at the line  *)
(* of the source that calls them.                                          *)
(***************************************************************************)
EXTENDS Integers, Sequences, FiniteSets, TLC

VARIABLES
    quality_report,  \* self.quality_report, the dict the session owns
    df,              \* the caller's table, the argument of the current call
    config,          \* the config argument of the current call
    cleaned_df,      \* the working table of validate_and_clean
    pc,              \* where the current call stands ("idle" between calls)
    result,          \* how the last call ended and what it returned
    entry,           \* the report as it was when the current call began
    history,         \* one record per call that has ended, in call order
    now,             \* the clock that datetime.now() reads
    caller           \* the caller's table object: its content now, and
                     \* whether the working table is that same object

vars == <<quality_report, df, config, cleaned_df, pc, result, entry, history, now,
          caller>>

(***************************************************************************)
(* Bounds of the model.                                                    *)
(***************************************************************************)
\* validate_and_clean calls made on one validator session
MaxCalls == 2
\* rows of an input table of the pipeline specification
MaxRows == 2
\* rows of an input table of the session specification
MaxSessionRows == 1
\* rows of an input table of the duplicate-check specification
MaxDupRows == 3
\* rows of an input table whose text column is constant, in the
\* specifications that validate a returned table again
MaxRemoveRows == 5
MaxFlagRows == 4
\* rows of an input table whose columns both vary, in those specifications
MaxMixedRows == 3

(***************************************************************************)
(* Cells and exact arithmetic on them.                                     *)
(***************************************************************************)
Abs(x) == IF x < 0 THEN -x ELSE x

RECURSIVE Gcd(_, _)
Gcd(x, y) == IF y = 0 THEN x ELSE Gcd(y, x % y)

\* the number p/q (q # 0) in lowest terms
Rat(p, q) ==
    LET g == Gcd(Abs(p), Abs(q))
        sgn == IF q < 0 THEN -1 ELSE 1
    IN  [t |-> "num", n |-> sgn * (p \div g), d |-> Abs(q) \div g, s |-> <<>>]

Num(x) == [t |-> "num", n |-> x, d |-> 1, s |-> <<>>]
Str(chars) == [t |-> "str", n |-> 0, d |-> 1, s |-> chars]
Bool(b) == [t |-> "bool", n |-> IF b THEN 1 ELSE 0, d |-> 1, s |-> <<>>]
NA == [t |-> "na", n |-> 0, d |-> 1, s |-> <<>>]

IsNA(c) == c.t = "na"

RAdd(x, y) == Rat(x.n * y.d + y.n * x.d, x.d * y.d)
RSub(x, y) == Rat(x.n * y.d - y.n * x.d, x.d * y.d)
RMul(x, y) == Rat(x.n * y.n, x.d * y.d)
RLt(x, y) == x.n * y.d < y.n * x.d

(***************************************************************************)
(* DataFrames.                                                             *)
(***************************************************************************)
ColumnSet(t) == {t.columns[i] : i \in 1..Len(t.columns)}

\* col in df.columns
HasColumn(t, col) == col \in ColumnSet(t)

\* df[col]: the column's cells in row order
Column(t, col) == [i \in 1..Len(t.rows) |-> t.rows[i][col]]

RECURSIVE MaskSelect(_, _)
\* the elements of seq at the positions where mask is TRUE, in order
MaskSelect(seq, mask) ==
    IF seq = <<>> THEN <<>>
    ELSE (IF Head(mask) THEN <<Head(seq)>> ELSE <<>>)
         \o MaskSelect(Tail(seq), Tail(mask))

\* df[mask]: boolean indexing keeps the rows the mask selects, in order
FilterRows(t, mask) == [t EXCEPT !.rows = MaskSelect(t.rows, mask)]

Negate(mask) == [i \in 1..Len(mask) |-> ~mask[i]]

\* mask.sum()
RECURSIVE CountTrue(_)
CountTrue(mask) ==
    IF mask = <<>> THEN 0
    ELSE (IF Head(mask) THEN 1 ELSE 0) + CountTrue(Tail(mask))

\* df[col] = values: replaces the column, or appends it as the last column
SetColumn(t, col, dtype, values) ==
    [columns |-> IF HasColumn(t, col) THEN t.columns ELSE Append(t.columns, col),
     dtypes  |-> [c \in ColumnSet(t) \cup {col} |->
                     IF c = col THEN dtype ELSE t.dtypes[c]],
     rows    |-> [i \in 1..Len(t.rows) |->
                     [c \in ColumnSet(t) \cup {col} |->
                         IF c = col THEN values[i] ELSE t.rows[i][c]]]]

(***************************************************************************)
(* Python's dict.get and truthiness of a config value.                     *)
(***************************************************************************)
\* d.get(key, default); a key whose value is None is modelled as absent
Get(d, key, default) == IF key \in DOMAIN d THEN d[key] ELSE default

\* a variant of Truthy that takes a key for enabled as soon as it is present
TruthyWhenPresent(d, key) == key \in DOMAIN d

\* config.get(key) is truthy: the key is present and its dict or list is
\* not empty (an empty dict is the function with the empty domain)
Truthy(d, key) == key \in DOMAIN d /\ DOMAIN d[key] # {}

\* None, where a list of column names may stand
None == [none |-> TRUE, cols |-> <<>>]
Some(cols) == [none |-> FALSE, cols |-> cols]

SeqToSet(seq) == {seq[i] : i \in 1..Len(seq)}

(***************************************************************************)
(* The quality report and the state a check threads through: the working   *)
(* table, the report, and the exception that escaped ("" for none).        *)
(***************************************************************************)
\* self.quality_report as __init__ creates it; id is the identity of the
\* dict object that self.quality_report refers to
NewReport(time, id) ==
    [id |-> id,
     timestamp |-> time,
     checks_performed |-> <<>>,
     issues_found |-> <<>>,
     rows_processed |-> 0,
     rows_cleaned |-> 0]

AppendIssue(st, issue) ==
    [st EXCEPT !.report.issues_found = Append(@, issue)]

AppendCheck(st, name) ==
    [st EXCEPT !.report.checks_performed = Append(@, name)]

Raise(st, exception) == [st EXCEPT !.error = exception]

\* the table that df names is changed in place (df[col] = ..., df.loc[...] =
\* ..., fillna(inplace=True)): whoever holds the same object sees the change
InPlace(st, table) ==
    [st EXCEPT !.df = table,
               !.caller.table = IF st.caller.aliased THEN table ELSE @]

\* df is bound to a new table (df = df[mask], df = df.dropna(...))
Fresh(st, table) == [st EXCEPT !.df = table, !.caller.aliased = FALSE]

\* the end of a check: its name is appended unless an exception has escaped
Performed(st, name) == IF st.error # "" THEN st ELSE AppendCheck(st, name)

(***************************************************************************)
(* _handle_duplicates                                                      *)
(***************************************************************************)
\* a variant of Duplicated that keeps the first occurrence whatever keep says
DuplicatedKeepFirst(t, subset, keep) ==
    LET key == IF subset.none THEN ColumnSet(t) ELSE SeqToSet(subset.cols)
    IN  [i \in 1..Len(t.rows) |->
            \E j \in 1..(i - 1) : \A c \in key : t.rows[i][c] = t.rows[j][c]]

\* df.duplicated(subset, keep): rows are compared on the subset columns (all
\* columns for None), missing values comparing equal; keep names the
\* occurrence of each group that is not marked; "false" stands for the
\* boolean False of the config, which marks every row of a group
Duplicated(t, subset, keep) ==
    LET key == IF subset.none THEN ColumnSet(t) ELSE SeqToSet(subset.cols)
        same(i, j) == \A c \in key : t.rows[i][c] = t.rows[j][c]
        n == Len(t.rows)
    IN  [i \in 1..n |->
            CASE keep = "first" -> \E j \in 1..(i - 1) : same(i, j)
              [] keep = "last"  -> \E j \in (i + 1)..n : same(i, j)
              [] keep = "false" -> \E j \in 1..n : j # i /\ same(i, j)]

\* config.get('subset')
SubsetOf(cfg) == IF "subset" \in DOMAIN cfg THEN Some(cfg["subset"]) ELSE None

\* the duplicates are recorded and acted on
RecordDuplicates(st, action, duplicates) ==
    CASE action = "remove" -> Fresh(st, FilterRows(st.df, Negate(duplicates)))
      [] action = "flag" ->
            InPlace(st, SetColumn(st.df, "_is_duplicate", "bool",
                                  [i \in 1..Len(duplicates) |->
                                      Bool(duplicates[i])]))
      [] OTHER -> st

CountDuplicates(st, subset, action, duplicates) ==
    IF CountTrue(duplicates) > 0
    THEN RecordDuplicates(AppendIssue(st, [type |-> "duplicates",
                                           count |-> CountTrue(duplicates),
                                           columns_checked |-> subset]),
                          action, duplicates)
    ELSE st

_handle_duplicates(st, cfg) ==
    IF "subset" \in DOMAIN cfg /\ ~(SeqToSet(cfg["subset"]) \subseteq ColumnSet(st.df))
    THEN \* DataFrame.duplicated raises KeyError for a subset column that
         \* is not in the frame
         Raise(st, "KeyError")
    ELSE IF Get(cfg, "keep", "first") \notin {"first", "last", "false"}
    THEN \* DataFrame.duplicated raises ValueError for any other keep
         Raise(st, "ValueError")
    ELSE AppendCheck(
             CountDuplicates(st, SubsetOf(cfg), Get(cfg, "action", "None"),
                             Duplicated(st.df, SubsetOf(cfg), Get(cfg, "keep", "first"))),
             "duplicate_check")

(***************************************************************************)
(* _validate_required_columns                                              *)
(***************************************************************************)
\* a variant of _validate_required_columns that records the missing columns
\* and goes on
RequiredColumnsNotFatal(st, required_cols) ==
    LET missing_cols == SeqToSet(required_cols) \ ColumnSet(st.df)
        issue == [type |-> "missing_columns", columns |-> missing_cols]
    IN  AppendCheck(IF missing_cols # {} THEN AppendIssue(st, issue) ELSE st,
                    "required_columns_check")

_validate_required_columns(st, required_cols) ==
    LET missing_cols == SeqToSet(required_cols) \ ColumnSet(st.df)
        issue == [type |-> "missing_columns", columns |-> missing_cols]
    IN  IF missing_cols # {}
        THEN Raise(AppendIssue(st, issue), "ValueError")
        ELSE AppendCheck(st, "required_columns_check")

(***************************************************************************)
(* Statistics of a column, over its non-missing cells.                     *)
(***************************************************************************)
RECURSIVE SelectCells(_, _)
SelectCells(cells, keepNA) ==
    IF cells = <<>> THEN <<>>
    ELSE (IF IsNA(Head(cells)) = keepNA THEN <<Head(cells)>> ELSE <<>>)
         \o SelectCells(Tail(cells), keepNA)

\* series.dropna()
NonMissing(cells) == SelectCells(cells, FALSE)

\* series.isnull()
IsNull(cells) == [i \in 1..Len(cells) |-> IsNA(cells[i])]

\* the order of the characters that strings are compared by
Alphabet == <<"-", ".", "0", "1", "2", "3", "4", "5", "6", "7", "8", "9",
              "<", ">", "@", "A", "F", "N", "T", "a", "b", "e", "l", "n",
              "o", "r", "s", "u", "x">>

Ord(ch) == CHOOSE i \in 1..Len(Alphabet) : Alphabet[i] = ch

RECURSIVE StrLt(_, _)
StrLt(x, y) ==
    IF y = <<>> THEN FALSE
    ELSE IF x = <<>> THEN TRUE
    ELSE IF Head(x) = Head(y) THEN StrLt(Tail(x), Tail(y))
    ELSE Ord(Head(x)) < Ord(Head(y))

\* x < y for two cells of one kind (numbers, booleans or strings)
CellLt(x, y) ==
    IF x.t = "str" /\ y.t = "str" THEN StrLt(x.s, y.s) ELSE RLt(x, y)

RECURSIVE Insert(_, _)
Insert(c, sorted) ==
    IF sorted = <<>> THEN <<c>>
    ELSE IF CellLt(c, Head(sorted)) THEN <<c>> \o sorted
    ELSE <<Head(sorted)>> \o Insert(c, Tail(sorted))

RECURSIVE Sorted(_)
Sorted(cells) ==
    IF cells = <<>> THEN <<>> ELSE Insert(Head(cells), Sorted(Tail(cells)))

RECURSIVE Sum(_)
Sum(cells) == IF cells = <<>> THEN Num(0) ELSE RAdd(Head(cells), Sum(Tail(cells)))

HasStr(cells) == \E i \in 1..Len(cells) : cells[i].t = "str"

\* series.mean(): NaN when nothing is left after the missing cells are skipped
Mean(cells) ==
    IF NonMissing(cells) = <<>> THEN NA
    ELSE RMul(Sum(NonMissing(cells)), Rat(1, Len(NonMissing(cells))))

\* series.median(): the middle value, or the mean of the two middle values
Middle(xs) ==
    IF Len(xs) = 0 THEN NA
    ELSE IF Len(xs) % 2 = 1 THEN xs[(Len(xs) + 1) \div 2]
    ELSE RMul(RAdd(xs[Len(xs) \div 2], xs[Len(xs) \div 2 + 1]), Rat(1, 2))

Median(cells) == Middle(Sorted(NonMissing(cells)))

\* series.mode(): the most frequent non-missing values, sorted
Frequency(xs, c) == Cardinality({i \in 1..Len(xs) : xs[i] = c})

MostFrequent(xs) ==
    {c \in SeqToSet(xs) :
        \A o \in SeqToSet(xs) : Frequency(xs, o) <= Frequency(xs, c)}

Mode(cells) ==
    IF NonMissing(cells) = <<>> THEN <<>>
    ELSE <<CHOOSE c \in MostFrequent(NonMissing(cells)) :
               \A o \in MostFrequent(NonMissing(cells)) : ~CellLt(o, c)>>

\* round(100 * count / total, 2), as a number
RoundHalfEven(p, total) ==
    IF 2 * (p % total) > total
       \/ (2 * (p % total) = total /\ (p \div total) % 2 = 1)
    THEN p \div total + 1
    ELSE p \div total

Percentage(count, total) == Rat(RoundHalfEven(10000 * count, total), 100)

\* the dtype a column of these numbers has when pandas infers it
NumericDtype(cells) ==
    IF \A i \in 1..Len(cells) : cells[i].t = "num" /\ cells[i].d = 1
    THEN "int64" ELSE "float64"

(***************************************************************************)
(* _handle_nulls                                                           *)
(***************************************************************************)
\* df[col].fillna(value, inplace=True): the missing cells take the value; a
\* NaN value fills nothing; the column holds objects once kinds are mixed
FillNa(t, col, value) ==
    SetColumn(t, col,
              CASE IsNA(value) -> t.dtypes[col]
                [] value.t = "num" /\ t.dtypes[col] = "float64" -> "float64"
                [] value.t = "num" /\ t.dtypes[col] = "Int64" -> "Int64"
                [] OTHER -> "object",
              [i \in 1..Len(t.rows) |->
                  IF IsNA(t.rows[i][col]) THEN value ELSE t.rows[i][col]])

\* fillna with a value; a nullable-integer column takes no other value
Fill(st, col, value) ==
    IF st.df.dtypes[col] = "Int64" /\ ~IsNA(value)
       /\ (value.t # "num" \/ value.d # 1)
    THEN Raise(st, "TypeError")
    ELSE InPlace(st, FillNa(st.df, col, value))

\* fillna with mode()[0]: when mode() is empty, [0] is not in it
FillMode(st, col, mode) ==
    IF mode = <<>> THEN Raise(st, "KeyError") ELSE Fill(st, col, mode[1])

\* as ApplyStrategy, with drop_rows leaving the rows in the table
ApplyStrategyKeepRows(st, col, strategy) ==
    CASE strategy.kind = "fill_mean" ->
            IF HasStr(Column(st.df, col)) THEN Raise(st, "TypeError")
            ELSE Fill(st, col, Mean(Column(st.df, col)))
      [] strategy.kind = "fill_median" ->
            IF HasStr(Column(st.df, col)) THEN Raise(st, "TypeError")
            ELSE Fill(st, col, Median(Column(st.df, col)))
      [] strategy.kind = "fill_mode" ->
            FillMode(st, col, Mode(Column(st.df, col)))
      [] strategy.kind = "fill_value" -> Fill(st, col, strategy.fill_value)
      [] OTHER -> st

\* the strategy applied to a column that has missing values
ApplyStrategy(st, col, strategy) ==
    CASE strategy.kind = "drop_rows" ->
            Fresh(st, FilterRows(st.df, Negate(IsNull(Column(st.df, col)))))
      [] strategy.kind = "fill_mean" ->
            IF HasStr(Column(st.df, col)) THEN Raise(st, "TypeError")
            ELSE Fill(st, col, Mean(Column(st.df, col)))
      [] strategy.kind = "fill_median" ->
            IF HasStr(Column(st.df, col)) THEN Raise(st, "TypeError")
            ELSE Fill(st, col, Median(Column(st.df, col)))
      [] strategy.kind = "fill_mode" ->
            FillMode(st, col, Mode(Column(st.df, col)))
      [] strategy.kind = "fill_value" -> Fill(st, col, strategy.fill_value)
      [] OTHER -> st

\* the column's issue is recorded and its strategy applied
RecordNulls(st, col, strategy, null_count) ==
    IF null_count = 0 THEN st
    ELSE ApplyStrategy(
             AppendIssue(st, [type |-> "null_values",
                              column |-> col,
                              count |-> null_count,
                              percentage |-> Percentage(null_count, Len(st.df.rows)),
                              strategy |-> strategy]),
             col, strategy)

\* one (col, strategy) item of the mapping
HandleNullColumn(st, col, strategy) ==
    IF ~HasColumn(st.df, col) THEN st
    ELSE RecordNulls(st, col, strategy, CountTrue(IsNull(Column(st.df, col))))

RECURSIVE _handle_nulls_items(_, _)
\* the loop over config.items(), which an escaping exception leaves
_handle_nulls_items(st, items) ==
    IF items = <<>> \/ st.error # "" THEN st
    ELSE _handle_nulls_items(
             HandleNullColumn(st, Head(items).col, Head(items).strategy),
             Tail(items))

_handle_nulls(st, cfg) == Performed(_handle_nulls_items(st, cfg), "null_handling")

\* the strategies of the mapping; a plain string has no fill_value
Strategy(kind) == [kind |-> kind, fill_value |-> NA]
FillValue(value) == [kind |-> "fill_value", fill_value |-> value]

(***************************************************************************)
(* Text of a value (str) and value of a text (pd.to_numeric).              *)
(***************************************************************************)
Digits == <<"0", "1", "2", "3", "4", "5", "6", "7", "8", "9">>

IsDigit(ch) == \E i \in 1..10 : Digits[i] = ch

DigitValue(ch) == (CHOOSE i \in 1..10 : Digits[i] = ch) - 1

RECURSIVE NatToStr(_)
NatToStr(x) ==
    IF x < 10 THEN <<Digits[x + 1]>>
    ELSE NatToStr(x \div 10) \o <<Digits[(x % 10) + 1]>>

IntToStr(x) == IF x < 0 THEN <<"-">> \o NatToStr(-x) ELSE NatToStr(x)

RECURSIVE FractionDigits(_, _, _)
\* the decimal digits of r/d (0 <= r < d), at most places of them
FractionDigits(r, d, places) ==
    IF r = 0 \/ places = 0 THEN <<>>
    ELSE <<Digits[((10 * r) \div d) + 1]>>
         \o FractionDigits((10 * r) % d, d, places - 1)

\* repr of the float n/d: always with a fractional part, of at most 16
\* digits
FloatToStr(c) ==
    (IF c.n < 0 THEN <<"-">> ELSE <<>>) \o NatToStr(Abs(c.n) \div c.d) \o <<".">>
    \o (IF Abs(c.n) % c.d = 0 THEN <<"0">>
        ELSE FractionDigits(Abs(c.n) % c.d, c.d, 16))

\* str(value) of a cell of a column of this dtype, as astype(str) gives it
PyStr(c, dtype) ==
    CASE c.t = "str" -> c.s
      [] c.t = "bool" -> IF c.n = 1 THEN <<"T", "r", "u", "e">>
                         ELSE <<"F", "a", "l", "s", "e">>
      [] c.t = "na" -> CASE dtype = "object" -> <<"N", "o", "n", "e">>
                         [] dtype = "Int64" -> <<"<", "N", "A", ">">>
                         [] OTHER -> <<"n", "a", "n">>
      [] OTHER -> IF dtype = "float64" THEN FloatToStr(c) ELSE IntToStr(c.n)

AllDigits(chars) == chars # <<>> /\ \A i \in 1..Len(chars) : IsDigit(chars[i])

RECURSIVE DigitsToNat(_, _)
DigitsToNat(chars, acc) ==
    IF chars = <<>> THEN acc
    ELSE DigitsToNat(Tail(chars), 10 * acc + DigitValue(Head(chars)))

RECURSIVE Pow10(_)
Pow10(k) == IF k = 0 THEN 1 ELSE 10 * Pow10(k - 1)

\* the number that the digits ip, a point and the digits fp denote
Decimal(sign, ip, fp) ==
    IF (ip = <<>> \/ AllDigits(ip)) /\ (fp = <<>> \/ AllDigits(fp))
       /\ ~(ip = <<>> /\ fp = <<>>)
    THEN Rat(sign * (DigitsToNat(ip, 0) * Pow10(Len(fp)) + DigitsToNat(fp, 0)),
             Pow10(Len(fp)))
    ELSE NA

\* the number that an unsigned numeral with its points at dots denotes
Unsigned(sign, body, dots) ==
    IF AllDigits(body) THEN Num(sign * DigitsToNat(body, 0))
    ELSE IF Cardinality(dots) = 1
    THEN Decimal(sign, SubSeq(body, 1, (CHOOSE i \in dots : TRUE) - 1),
                 SubSeq(body, (CHOOSE i \in dots : TRUE) + 1, Len(body)))
    ELSE NA

Signed(sign, body) == Unsigned(sign, body, {i \in 1..Len(body) : body[i] = "."})

\* the number a decimal numeral (digits, an optional sign, an optional
\* point) denotes, and NaN for any other text: errors='coerce'
ParseNumeric(chars) ==
    IF chars # <<>> /\ Head(chars) = "-" THEN Signed(-1, Tail(chars))
    ELSE Signed(1, chars)

\* a column of numbers with the dtype pandas infers for it
Inferred(parsed) == [dtype |-> NumericDtype(parsed), cells |-> parsed]

\* pd.to_numeric(series, errors='coerce'): numeric and boolean columns are
\* returned as they are; the strings of an object column are parsed
ToNumeric(cells, dtype) ==
    IF dtype # "object" THEN [dtype |-> dtype, cells |-> cells]
    ELSE Inferred([i \in 1..Len(cells) |->
                      CASE cells[i].t = "str" -> ParseNumeric(cells[i].s)
                        [] cells[i].t = "bool" -> Num(cells[i].n)
                        [] OTHER -> cells[i]])

(***************************************************************************)
(* _validate_types                                                         *)
(***************************************************************************)
\* a conversion that succeeded, and one that raised
Converted(dtype, cells) == [error |-> "", dtype |-> dtype, cells |-> cells]

ConvertFailed(exception) == [error |-> exception, dtype |-> "", cells |-> <<>>]

\* astype('Int64') of a numeric column: it refuses a float that is no integer
AsInt64(numeric) ==
    IF \E i \in 1..Len(numeric.cells) :
           numeric.cells[i].t = "num" /\ numeric.cells[i].d # 1
    THEN ConvertFailed("TypeError")
    ELSE Converted("Int64",
                   [i \in 1..Len(numeric.cells) |->
                       IF numeric.cells[i].t = "bool"
                       THEN Num(numeric.cells[i].n) ELSE numeric.cells[i]])

\* astype(bool): the truth value of each cell; NaN is true, None is false,
\* and <NA> has none
AsBool(cells, dtype) ==
    IF dtype = "Int64" /\ \E i \in 1..Len(cells) : IsNA(cells[i])
    THEN ConvertFailed("ValueError")
    ELSE Converted("bool",
                   [i \in 1..Len(cells) |->
                       CASE cells[i].t = "str" -> Bool(cells[i].s # <<>>)
                         [] cells[i].t = "na" -> Bool(dtype # "object")
                         [] OTHER -> Bool(cells[i].n # 0)])

\* the conversion of one column: the new column, or the exception that the
\* try block catches (the column is then left as it was)
Convert(cells, dtype, expected_type) ==
    CASE expected_type = "int" -> AsInt64(ToNumeric(cells, dtype))
      [] expected_type = "float" -> ToNumeric(cells, dtype) @@ [error |-> ""]
      [] expected_type = "string" ->
           Converted("object",
                     [i \in 1..Len(cells) |-> Str(PyStr(cells[i], dtype))])
      [] expected_type = "bool" -> AsBool(cells, dtype)
      [] OTHER -> Converted(dtype, cells)

\* the converted column is assigned, or the exception recorded
AssignConverted(st, col, expected_type, conv) ==
    IF conv.error # ""
    THEN AppendIssue(st, [type |-> "type_conversion_error",
                          column |-> col,
                          expected_type |-> expected_type,
                          error |-> conv.error])
    ELSE InPlace(st, SetColumn(st.df, col, conv.dtype, conv.cells))

ValidateTypeColumn(st, col, expected_type) ==
    IF ~HasColumn(st.df, col) THEN st
    ELSE AssignConverted(st, col, expected_type,
                         Convert(Column(st.df, col), st.df.dtypes[col],
                                 expected_type))

RECURSIVE _validate_types_items(_, _)
_validate_types_items(st, items) ==
    IF items = <<>> THEN st
    ELSE _validate_types_items(
             ValidateTypeColumn(st, Head(items).col, Head(items).expected_type),
             Tail(items))

_validate_types(st, cfg) ==
    AppendCheck(_validate_types_items(st, cfg), "type_validation")

(***************************************************************************)
(* _validate_ranges                                                        *)
(***************************************************************************)
\* series < bound (op "lt") or series > bound (op "gt"), cell by cell:
\* "T", "F", or "NA" where a nullable-integer column holds <NA>; a missing
\* cell of any other column compares false
Compare(cells, dtype, op, bound) ==
    [i \in 1..Len(cells) |->
        IF IsNA(cells[i]) THEN (IF dtype = "Int64" THEN "NA" ELSE "F")
        ELSE IF (IF op = "lt" THEN RLt(cells[i], bound) ELSE RLt(bound, cells[i]))
        THEN "T" ELSE "F"]

\* the rows a mask selects in df[mask] and df.loc[mask]: <NA> selects nothing
Selects(mask3) == [i \in 1..Len(mask3) |-> mask3[i] = "T"]

\* ~mask, which leaves <NA> as it is
Invert(mask3) ==
    [i \in 1..Len(mask3) |->
        CASE mask3[i] = "T" -> "F" [] mask3[i] = "F" -> "T" [] OTHER -> "NA"]

\* a column with its dtype after an assignment to some of its cells
Assigned(t, col, cells) ==
    SetColumn(t, col,
              CASE t.dtypes[col] = "float64" -> "float64"
                [] t.dtypes[col] = "Int64" -> "Int64"
                [] OTHER -> NumericDtype(cells),
              cells)

\* df.loc[mask, col] = value
SetWhere(t, col, mask, value) ==
    Assigned(t, col, [i \in 1..Len(t.rows) |->
                         IF mask[i] THEN value ELSE t.rows[i][col]])

\* the action of a pass on the rows that are out of range
RangeAction(st, col, bound, action, out_of_range) ==
    CASE action = "remove" ->
            Fresh(st, FilterRows(st.df, Selects(Invert(out_of_range))))
      [] action = "cap" ->
            InPlace(st, SetWhere(st.df, col, Selects(out_of_range), bound))
      [] OTHER -> st

\* the violations of a pass are recorded and acted on
RecordRange(st, col, op, bound, action, out_of_range, violation_count) ==
    IF violation_count = 0 THEN st
    ELSE RangeAction(
             AppendIssue(st, [type |-> "range_violation",
                              column |-> col,
                              violation |-> IF op = "lt" THEN "below_minimum"
                                            ELSE "above_maximum",
                              count |-> violation_count,
                              threshold |-> bound]),
             col, bound, action, out_of_range)

\* one pass (min or max) over one column
RangePass(st, col, op, bound, action) ==
    IF HasStr(Column(st.df, col))
    THEN \* a str and a number do not compare
         Raise(st, "TypeError")
    ELSE RecordRange(
             st, col, op, bound, action,
             Compare(Column(st.df, col), st.df.dtypes[col], op, bound),
             CountTrue(Selects(Compare(Column(st.df, col), st.df.dtypes[col],
                                       op, bound))))

\* the max pass, unless the min pass has raised
MaxPass(st, col, range_config) ==
    IF st.error # "" THEN st
    ELSE IF "max" \in DOMAIN range_config
    THEN RangePass(st, col, "gt", range_config["max"],
                   Get(range_config, "action", "flag"))
    ELSE st

\* as ValidateRangeColumn, with the max pass before the min pass
ValidateRangeColumnMaxFirst(st, col, range_config) ==
    IF ~HasColumn(st.df, col) THEN st
    ELSE LET upper == MaxPass(st, col, range_config)
         IN  IF upper.error # "" \/ "min" \notin DOMAIN range_config THEN upper
             ELSE RangePass(upper, col, "lt", range_config["min"],
                            Get(range_config, "action", "flag"))

ValidateRangeColumn(st, col, range_config) ==
    IF ~HasColumn(st.df, col) THEN st
    ELSE MaxPass(IF "min" \in DOMAIN range_config
                 THEN RangePass(st, col, "lt", range_config["min"],
                                Get(range_config, "action", "flag"))
                 ELSE st,
                 col, range_config)

RECURSIVE _validate_ranges_items(_, _)
_validate_ranges_items(st, items) ==
    IF items = <<>> \/ st.error # "" THEN st
    ELSE _validate_ranges_items(
             ValidateRangeColumn(st, Head(items).col, Head(items).range_config),
             Tail(items))

_validate_ranges(st, cfg) ==
    Performed(_validate_ranges_items(st, cfg), "range_validation")

(***************************************************************************)
(* _validate_patterns                                                      *)
(***************************************************************************)
\* A pattern is a record [atoms, dollar]: a sequence of atoms, each a set of
\* characters that is matched once ("one") or one or more times ("plus"),
\* and whether the pattern ends with $.
RECURSIVE MatchEnds(_, _, _)
\* the positions of text at which a match of atoms begun at start may end
MatchEnds(atoms, text, start) ==
    IF atoms = <<>> THEN {start}
    ELSE UNION {MatchEnds(Tail(atoms), text, e) :
                   e \in {e \in (start + 1)..Len(text) :
                             /\ \A i \in (start + 1)..e : text[i] \in Head(atoms).chars
                             /\ Head(atoms).rep = "one" => e = start + 1}}

\* re.match(pattern, text): the pattern matches at the start of the text; the
\* match need not reach the end of the text unless the pattern says so
ReMatch(pattern, text) ==
    \E e \in MatchEnds(pattern.atoms, text, 0) : pattern.dollar => e = Len(text)

\* the names of the indicator columns, f'{col}_invalid_format' and
\* f'{col}_is_outlier', for the columns of the model
InvalidFormatColumn(col) ==
    CASE col = "a" -> "a_invalid_format"
      [] col = "s" -> "s_invalid_format"
      [] OTHER -> "_invalid_format"

IsOutlierColumn(col) ==
    CASE col = "a" -> "a_is_outlier"
      [] col = "s" -> "s_is_outlier"
      [] OTHER -> "_is_outlier"

\* as RecordPattern, with the indicator column true on the valid rows
RecordPatternFlagValid(st, col, pattern, action, invalid) ==
    CASE action = "remove" -> Fresh(st, FilterRows(st.df, Negate(invalid)))
      [] action = "flag" ->
            InPlace(st, SetColumn(st.df, InvalidFormatColumn(col), "bool",
                                  [i \in 1..Len(invalid) |-> Bool(~invalid[i])]))
      [] OTHER -> st

\* the rows whose text the pattern does not match are recorded and acted on
RecordPattern(st, col, pattern, action, invalid) ==
    CASE action = "remove" -> Fresh(st, FilterRows(st.df, Negate(invalid)))
      [] action = "flag" ->
            InPlace(st, SetColumn(st.df, InvalidFormatColumn(col), "bool",
                                  [i \in 1..Len(invalid) |-> Bool(invalid[i])]))
      [] OTHER -> st

CountPattern(st, col, pattern, action, invalid) ==
    IF CountTrue(invalid) = 0 THEN st
    ELSE RecordPattern(AppendIssue(st, [type |-> "pattern_violation",
                                        column |-> col,
                                        count |-> CountTrue(invalid),
                                        pattern |-> pattern]),
                       col, pattern, action, invalid)

ValidatePatternColumn(st, col, pattern_config) ==
    IF ~HasColumn(st.df, col) THEN st
    ELSE IF "pattern" \notin DOMAIN pattern_config THEN Raise(st, "KeyError")
    ELSE CountPattern(st, col, pattern_config["pattern"],
                      Get(pattern_config, "action", "flag"),
                      [i \in 1..Len(st.df.rows) |->
                          ~ReMatch(pattern_config["pattern"],
                                   PyStr(st.df.rows[i][col], st.df.dtypes[col]))])

RECURSIVE _validate_patterns_items(_, _)
_validate_patterns_items(st, items) ==
    IF items = <<>> \/ st.error # "" THEN st
    ELSE _validate_patterns_items(
             ValidatePatternColumn(st, Head(items).col, Head(items).pattern_config),
             Tail(items))

_validate_patterns(st, cfg) ==
    Performed(_validate_patterns_items(st, cfg), "pattern_validation")

(***************************************************************************)
(* _detect_outliers                                                        *)
(***************************************************************************)
\* series.quantile(num/den): linear interpolation between the two nearest
\* values of the sorted non-missing cells; NaN when there are none
Interpolate(xs, h, den) ==
    IF Len(xs) = 0 THEN NA
    ELSE IF h % den = 0 THEN xs[h \div den + 1]
    ELSE RAdd(xs[h \div den + 1],
              RMul(Rat(h % den, den),
                   RSub(xs[h \div den + 2], xs[h \div den + 1])))

Quantile(cells, num, den) ==
    Interpolate(Sorted(NonMissing(cells)), (Len(NonMissing(cells)) - 1) * num, den)

\* as OutsideBounds, without the lower bound
OutsideBoundsAbove(cells, lower_bound, upper_bound) ==
    [i \in 1..Len(cells) |->
        /\ ~IsNA(cells[i])
        /\ ~IsNA(lower_bound)
        /\ RLt(upper_bound, cells[i])]

\* (series < lower_bound) | (series > upper_bound); a comparison with a
\* missing cell or a NaN bound is false
OutsideBounds(cells, lower_bound, upper_bound) ==
    [i \in 1..Len(cells) |->
        /\ ~IsNA(cells[i])
        /\ ~IsNA(lower_bound)
        /\ RLt(cells[i], lower_bound) \/ RLt(upper_bound, cells[i])]

\* the rows outside [Q1 - multiplier * IQR, Q3 + multiplier * IQR]
OutsideQuartiles(cells, multiplier, Q1, Q3) ==
    IF IsNA(Q1) THEN [i \in 1..Len(cells) |-> FALSE]
    ELSE OutsideBounds(cells,
                       RSub(Q1, RMul(multiplier, RSub(Q3, Q1))),
                       RAdd(Q3, RMul(multiplier, RSub(Q3, Q1))))

IqrOutliers(cells, multiplier) ==
    OutsideQuartiles(cells, multiplier, Quantile(cells, 1, 4), Quantile(cells, 3, 4))

\* the sum of the squared distances of the cells from m
RECURSIVE SumSq(_, _)
SumSq(cells, m) ==
    IF cells = <<>> THEN Num(0)
    ELSE RAdd(RMul(RSub(Head(cells), m), RSub(Head(cells), m)),
              SumSq(Tail(cells), m))

\* the square of the distance of c from m
Dist2(c, m) == RMul(RSub(c, m), RSub(c, m))

\* np.abs((series - mean) / std) > threshold, with std the sample standard
\* deviation: |x - mean| > threshold * std is decided on the squares; the
\* quotient is NaN, and the comparison false, for a missing cell, for fewer
\* than two values, and for 0 / 0
FarFromMean(cells, threshold, n, m, variance) ==
    [i \in 1..Len(cells) |->
        /\ ~IsNA(cells[i])
        /\ n >= 2
        /\ ~(variance.n = 0 /\ cells[i] = m)
        /\ \/ RLt(threshold, Num(0))
           \/ RLt(RMul(RMul(threshold, threshold), variance), Dist2(cells[i], m))]

\* the sample variance of the values xs, whose mean is m
Variance(xs, m) == RMul(SumSq(xs, m), Rat(1, Len(xs) - 1))

ZscoreOutliers(cells, threshold) ==
    FarFromMean(cells, threshold, Len(NonMissing(cells)), Mean(cells),
                Variance(NonMissing(cells), Mean(cells)))

\* the outliers of a column are recorded and acted on
RecordOutliers(st, col, action, outliers) ==
    CASE action = "remove" -> Fresh(st, FilterRows(st.df, Negate(outliers)))
      [] action = "flag" ->
            InPlace(st, SetColumn(st.df, IsOutlierColumn(col), "bool",
                                  [i \in 1..Len(outliers) |-> Bool(outliers[i])]))
      [] OTHER -> st

CountOutliers(st, col, method, action, outliers) ==
    IF CountTrue(outliers) = 0 THEN st
    ELSE RecordOutliers(
             AppendIssue(st, [type |-> "outliers",
                              column |-> col,
                              count |-> CountTrue(outliers),
                              percentage |-> Percentage(CountTrue(outliers),
                                                        Len(st.df.rows)),
                              method |-> method]),
             col, action, outliers)

DetectOutlierColumn(st, col, outlier_config) ==
    IF ~HasColumn(st.df, col) \/ st.df.dtypes[col] \notin {"float64", "int64"}
    THEN st
    ELSE IF Get(outlier_config, "method", "iqr") \notin {"iqr", "zscore"}
    THEN \* outliers is not bound
         Raise(st, "UnboundLocalError")
    ELSE CountOutliers(
             st, col, Get(outlier_config, "method", "iqr"),
             Get(outlier_config, "action", "flag"),
             IF Get(outlier_config, "method", "iqr") = "iqr"
             THEN IqrOutliers(Column(st.df, col),
                              Get(outlier_config, "multiplier", Rat(3, 2)))
             ELSE ZscoreOutliers(Column(st.df, col),
                                 Get(outlier_config, "threshold", Num(3))))

RECURSIVE _detect_outliers_items(_, _)
_detect_outliers_items(st, items) ==
    IF items = <<>> \/ st.error # "" THEN st
    ELSE _detect_outliers_items(
             DetectOutlierColumn(st, Head(items).col, Head(items).outlier_config),
             Tail(items))

_detect_outliers(st, cfg) ==
    Performed(_detect_outliers_items(st, cfg), "outlier_detection")

(***************************************************************************)
(* The session: __init__ and validate_and_clean, one action per phase of   *)
(* the pipeline.                                                           *)
(***************************************************************************)
EmptyDict == [k \in {} |-> 0]

EmptyTable == [columns |-> <<>>, dtypes |-> EmptyDict, rows |-> <<>>]

NoResult == [status |-> "none", error |-> "", table |-> EmptyTable, report |-> 0]

\* the identity of the dict that __init__ binds to self.quality_report
ReportObject == 1

\* __init__
Init ==
    /\ now = 0
    /\ quality_report = NewReport(0, ReportObject)
    /\ df = EmptyTable
    /\ config = EmptyDict
    /\ cleaned_df = EmptyTable
    /\ pc = "idle"
    /\ result = NoResult
    /\ entry = [report |-> NewReport(0, ReportObject), rerun |-> FALSE]
    /\ history = <<>>
    /\ caller = [table |-> EmptyTable, aliased |-> FALSE]

\* a variant of PipelineOrder with the type check before the null check
PipelineOrderTypesFirst ==
    <<"check_duplicates", "required_columns", "type_validation", "null_handling",
      "range_checks", "pattern_validation", "outlier_detection">>

\* a variant of PipelineOrder with the required columns after the null check
PipelineOrderRequiredLate ==
    <<"check_duplicates", "null_handling", "required_columns", "type_validation",
      "range_checks", "pattern_validation", "outlier_detection">>

\* the order in which validate_and_clean runs the checks, each named by its
\* config key (lines 85-139)
PipelineOrder ==
    <<"check_duplicates", "required_columns", "null_handling", "type_validation",
      "range_checks", "pattern_validation", "outlier_detection">>

\* where the call stands after the phase of key
After(key) ==
    LET i == CHOOSE j \in 1..Len(PipelineOrder) : PipelineOrder[j] = key
    IN  IF i = Len(PipelineOrder) THEN "return" ELSE PipelineOrder[i + 1]

\* a variant of EnterReport that starts every call from an empty report
EnterReportReset(report, table) ==
    [NewReport(report.timestamp, report.id) EXCEPT
        !.rows_processed = Len(table.rows)]

\* the report on entry to validate_and_clean: rows_processed = len(df)
EnterReport(report, table) == [report EXCEPT !.rows_processed = Len(table.rows)]

\* as Call, with the working table bound to the caller's table itself
CallWithoutCopy(table, cfg, rerun) ==
    /\ pc = "idle"
    /\ Len(history) < MaxCalls
    /\ now' = now + 1
    /\ df' = table
    /\ config' = cfg
    /\ cleaned_df' = table
    /\ caller' = [table |-> table, aliased |-> TRUE]
    /\ quality_report' = EnterReport(quality_report, table)
    /\ entry' = [report |-> quality_report, rerun |-> rerun]
    /\ result' = NoResult
    /\ pc' = PipelineOrder[1]
    /\ UNCHANGED history

\* validate_and_clean(table, cfg) is called, lines 78-83: the working table
\* is a copy of the caller's table, a new object with the same content
Call(table, cfg, rerun) ==
    /\ pc = "idle"
    /\ Len(history) < MaxCalls
    /\ now' = now + 1
    /\ df' = table
    /\ config' = cfg
    /\ cleaned_df' = table
    /\ caller' = [table |-> table, aliased |-> FALSE]
    /\ quality_report' = EnterReport(quality_report, table)
    /\ entry' = [report |-> quality_report, rerun |-> rerun]
    /\ result' = NoResult
    /\ pc' = PipelineOrder[1]
    /\ UNCHANGED history

\* what the call that is ending appended to a list of the report
Appended(list, before) == SubSeq(list, Len(before) + 1, Len(list))

Ended(status, report, table) ==
    [df |-> df,
     config |-> config,
     rerun |-> entry.rerun,
     status |-> status,
     table |-> table,
     issues_found |-> Appended(report.issues_found, entry.report.issues_found),
     checks_performed |->
         Appended(report.checks_performed, entry.report.checks_performed)]

\* the check that validate_and_clean calls for a key, on the key's value
RunCheck(key, st, cfg) ==
    CASE key = "check_duplicates" -> _handle_duplicates(st, cfg)
      [] key = "required_columns" -> _validate_required_columns(st, cfg)
      [] key = "null_handling" -> _handle_nulls(st, cfg)
      [] key = "type_validation" -> _validate_types(st, cfg)
      [] key = "range_checks" -> _validate_ranges(st, cfg)
      [] key = "pattern_validation" -> _validate_patterns(st, cfg)
      [] key = "outlier_detection" -> _detect_outliers(st, cfg)

\* the state a check receives: the working table and the session's report
Working ==
    [df |-> cleaned_df, report |-> quality_report, error |-> "", caller |-> caller]

\* the end of one phase of the pipeline, st being what its check left: an
\* exception that escapes the check ends the call
Phase(key, st) ==
    /\ cleaned_df' = st.df
    /\ caller' = st.caller
    /\ quality_report' = st.report
    /\ IF st.error # ""
       THEN /\ pc' = "idle"
            /\ result' = [NoResult EXCEPT !.status = "raised",
                                          !.error = st.error]
            /\ history' = Append(history, Ended("raised", st.report, st.df))
       ELSE /\ pc' = After(key)
            /\ UNCHANGED <<result, history>>
    /\ UNCHANGED <<df, config, entry, now>>

\* each check runs if its key is in the config with a truthy value
CheckDuplicates ==
    /\ pc = "check_duplicates"
    /\ Phase("check_duplicates",
             IF Truthy(config, "check_duplicates")
             THEN _handle_duplicates(Working, config["check_duplicates"])
             ELSE Working)

RequiredColumns ==
    /\ pc = "required_columns"
    /\ Phase("required_columns",
             IF Truthy(config, "required_columns")
             THEN _validate_required_columns(Working, config["required_columns"])
             ELSE Working)

NullHandling ==
    /\ pc = "null_handling"
    /\ Phase("null_handling",
             IF Truthy(config, "null_handling")
             THEN _handle_nulls(Working, config["null_handling"])
             ELSE Working)

TypeValidation ==
    /\ pc = "type_validation"
    /\ Phase("type_validation",
             IF Truthy(config, "type_validation")
             THEN _validate_types(Working, config["type_validation"])
             ELSE Working)

RangeChecks ==
    /\ pc = "range_checks"
    /\ Phase("range_checks",
             IF Truthy(config, "range_checks")
             THEN _validate_ranges(Working, config["range_checks"])
             ELSE Working)

PatternValidation ==
    /\ pc = "pattern_validation"
    /\ Phase("pattern_validation",
             IF Truthy(config, "pattern_validation")
             THEN _validate_patterns(Working, config["pattern_validation"])
             ELSE Working)

OutlierDetection ==
    /\ pc = "outlier_detection"
    /\ Phase("outlier_detection",
             IF Truthy(config, "outlier_detection")
             THEN _detect_outliers(Working, config["outlier_detection"])
             ELSE Working)

\* the report on normal completion: rows_cleaned = len(cleaned_df)
LeaveReport(report, table) == [report EXCEPT !.rows_cleaned = Len(table.rows)]

\* lines 141-152: return cleaned_df, self.quality_report
Return ==
    /\ pc = "return"
    /\ quality_report' = LeaveReport(quality_report, cleaned_df)
    /\ result' = [status |-> "returned", error |-> "",
                  table |-> cleaned_df, report |-> quality_report.id]
    /\ history' = Append(history, Ended("returned", quality_report, cleaned_df))
    /\ pc' = "idle"
    /\ UNCHANGED <<df, config, cleaned_df, entry, now, caller>>

Pipeline ==
    \/ CheckDuplicates
    \/ RequiredColumns
    \/ NullHandling
    \/ TypeValidation
    \/ RangeChecks
    \/ PatternValidation
    \/ OutlierDetection
    \/ Return

\* the table a call returned is validated again with the same config
Rerun ==
    /\ history # <<>>
    /\ history[Len(history)].status = "returned"
    /\ ~history[Len(history)].rerun
    /\ Call(history[Len(history)].table, history[Len(history)].config, TRUE)

(***************************************************************************)
(* The inputs of the pipeline specification: tables of a numeric column    *)
(* "a" and a text column "s", and configs that name them, the indicator    *)
(* columns, and columns no table has ("zz", "yy").                         *)
(***************************************************************************)
Text(ch) == Str(<<ch>>)

\* a table of the columns "a" and "s" as pd.DataFrame builds it from these
\* rows: "a" is int64, or float64 once a value is missing or no integer
InputTable(rows) ==
    [columns |-> <<"a", "s">>,
     dtypes  |-> [a |-> NumericDtype([i \in 1..Len(rows) |-> rows[i]["a"]]),
                  s |-> "object"],
     rows    |-> rows]

\* the tables of at most maxRows rows whose cells are drawn from avalues, svalues
TablesOf(avalues, svalues, maxRows) ==
    {InputTable(rows) :
        rows \in UNION {[1..n -> [a : avalues, s : svalues]] : n \in 1..maxRows}}

Tables == TablesOf({Num(1), Num(9), NA}, {Text("7"), Text("x"), NA}, MaxRows)

NullItem(col, strategy) == [col |-> col, strategy |-> strategy]
TypeItem(col, expected_type) == [col |-> col, expected_type |-> expected_type]
RangeItem(col, range_config) == [col |-> col, range_config |-> range_config]
PatternItem(col, pattern_config) == [col |-> col, pattern_config |-> pattern_config]
OutlierItem(col, outlier_config) == [col |-> col, outlier_config |-> outlier_config]

\* the patterns \d+ and \d+$
DigitChars == {"0", "1", "2", "3", "4", "5", "6", "7", "8", "9"}
DigitsPattern == [atoms |-> <<[chars |-> DigitChars, rep |-> "plus"]>>, dollar |-> FALSE]
DigitsOnlyPattern == [atoms |-> <<[chars |-> DigitChars, rep |-> "plus"]>>, dollar |-> TRUE]

ConfigColumns == {"a", "s", "zz"}

Strategies ==
    {Strategy(k) : k \in {"drop_rows", "fill_mean", "fill_median", "fill_mode"}}
    \cup {FillValue(Num(0))}

\* the values each key takes when it is the only key of the config
Options ==
    [check_duplicates |->
        {EmptyDict,
         [action |-> "flag"],
         [keep |-> "false", action |-> "remove"],
         [subset |-> <<"zz">>, action |-> "remove"],
         [subset |-> <<"a", "zz">>, keep |-> "last", action |-> "flag"],
         [subset |-> <<"a", "s">>, keep |-> "last", action |-> "flag"]},
     required_columns |->
        {<<>>, <<"zz", "yy">>, <<"a", "zz", "s">>, <<"_is_duplicate">>},
     null_handling |->
        {<<>>,
         <<NullItem("zz", Strategy("drop_rows")), NullItem("s", Strategy("drop_rows"))>>,
         <<NullItem("a", Strategy("drop_rows")), NullItem("s", Strategy("fill_mode"))>>}
        \cup {<<NullItem(c, st)>> : c \in ConfigColumns, st \in Strategies},
     type_validation |->
        {<<>>, <<TypeItem("zz", "int"), TypeItem("a", "string")>>}
        \cup {<<TypeItem(c, ty)>> :
                 c \in ConfigColumns, ty \in {"int", "float", "string", "bool"}},
     range_checks |->
        {<<>>,
         <<RangeItem("zz", [min |-> Num(5), action |-> "remove"]),
           RangeItem("a", [min |-> Num(5), action |-> "remove"])>>}
        \cup {<<RangeItem(c, rc)>> :
                 c \in ConfigColumns,
                 rc \in {[min |-> Num(5), action |-> "remove"],
                         [max |-> Num(5)],
                         [min |-> Num(2), max |-> Num(8), action |-> "cap"]}},
     pattern_validation |->
        {<<>>,
         <<PatternItem("zz", [pattern |-> DigitsPattern, action |-> "remove"]),
           PatternItem("s", [pattern |-> DigitsPattern, action |-> "remove"])>>}
        \cup {<<PatternItem(c, [pattern |-> p, action |-> act])>> :
                 c \in ConfigColumns,
                 p \in {DigitsPattern, DigitsOnlyPattern},
                 act \in {"remove", "flag"}},
     outlier_detection |->
        {<<>>,
         <<OutlierItem("zz", [method |-> "iqr", action |-> "remove"]),
           OutlierItem("a", [method |-> "iqr", action |-> "flag"])>>}
        \cup {<<OutlierItem(c, oc)>> :
                 c \in ConfigColumns,
                 oc \in {[method |-> "iqr", action |-> "flag"],
                         [method |-> "zscore", threshold |-> Num(1),
                          action |-> "remove"]}}]

\* the value each key takes in a config of several keys
Defaults ==
    [check_duplicates |-> [subset |-> <<"a">>, action |-> "remove"],
     required_columns |-> <<"a">>,
     null_handling |-> <<NullItem("a", Strategy("drop_rows"))>>,
     type_validation |-> <<TypeItem("s", "float")>>,
     range_checks |-> <<RangeItem("a", [max |-> Num(5), action |-> "cap"])>>,
     pattern_validation |->
        <<PatternItem("s", [pattern |-> DigitsPattern, action |-> "flag"])>>,
     outlier_detection |-> <<OutlierItem("a", [method |-> "iqr", action |-> "remove"])>>]

\* the configs: every set of keys with its default values, the same with
\* required columns that the table lacks, every option alone, and configs
\* whose other keys hold an empty dict or list
Configs ==
    {[k \in K |-> Defaults[k]] : K \in SUBSET DOMAIN Defaults}
    \cup {[k \in K \cup {"required_columns"} |->
              IF k = "required_columns" THEN <<"s", "zz">> ELSE Defaults[k]] :
             K \in SUBSET DOMAIN Defaults}
    \cup UNION {{[k \in {key} |-> opt] : opt \in Options[key]} : key \in DOMAIN Defaults}
    \cup {[k \in DOMAIN Defaults |-> IF k \in K THEN Defaults[k] ELSE <<>>] :
             K \in {{}, {"check_duplicates", "null_handling", "pattern_validation"},
                    {"required_columns", "range_checks"}}}

\* the first call of a session, on any table and config of the model
validate_and_clean ==
    /\ pc = "idle"
    /\ history = <<>>
    /\ \E table \in Tables, cfg \in Configs : Call(table, cfg, FALSE)

Next == validate_and_clean \/ Pipeline

Spec == Init /\ [][Next]_vars

(***************************************************************************)
(* A session of several calls.                                             *)
(***************************************************************************)
SessionTables == TablesOf({Num(1), NA}, {Text("x")}, MaxSessionRows)

SessionConfigs ==
    {EmptyDict,
     [check_duplicates |-> [action |-> "remove"], required_columns |-> <<"a">>],
     [check_duplicates |-> [action |-> "flag"], required_columns |-> <<"zz">>],
     [null_handling |-> <<NullItem("a", Strategy("fill_mode"))>>],
     [null_handling |-> <<NullItem("s", Strategy("drop_rows"))>>,
      pattern_validation |->
          <<PatternItem("s", [pattern |-> DigitsPattern, action |-> "flag"])>>]}

\* a call of the session, on any table and config of the session
SessionCall ==
    /\ pc = "idle"
    /\ \E table \in SessionTables, cfg \in SessionConfigs : Call(table, cfg, FALSE)

SpecSession == Init /\ [][SessionCall \/ Pipeline]_vars

(***************************************************************************)
(* The duplicate check on its own.                                         *)
(***************************************************************************)
DupTables == TablesOf({Num(1), Num(2)}, {Text("x"), NA}, MaxDupRows)

\* the dict with the keys subset, keep and action; <<>> and "" leave the
\* key out
DupDict(subset, keep, action) ==
    [k \in (IF subset = <<>> THEN {} ELSE {"subset"})
           \cup (IF keep = "" THEN {} ELSE {"keep"})
           \cup (IF action = "" THEN {} ELSE {"action"}) |->
        CASE k = "subset" -> subset [] k = "keep" -> keep [] OTHER -> action]

DupConfigs ==
    {DupDict(subset, keep, action) :
        subset \in {<<>>, <<"a">>, <<"s">>, <<"a", "s">>},
        keep \in {"", "first", "last", "false"},
        action \in {"", "remove", "flag"}}

DupCall ==
    /\ pc = "idle"
    /\ history = <<>>
    /\ \E table \in DupTables, d \in DupConfigs :
           Call(table, [check_duplicates |-> d], FALSE)

SpecDup == Init /\ [][DupCall \/ Pipeline]_vars

(***************************************************************************)
(* Properties of the pipeline.                                             *)
(***************************************************************************)
\* the check names in the order the specification lists them, each with the
\* config key that enables it
ListedChecks ==
    <<[key |-> "check_duplicates", name |-> "duplicate_check"],
      [key |-> "required_columns", name |-> "required_columns_check"],
      [key |-> "null_handling", name |-> "null_handling"],
      [key |-> "type_validation", name |-> "type_validation"],
      [key |-> "range_checks", name |-> "range_validation"],
      [key |-> "pattern_validation", name |-> "pattern_validation"],
      [key |-> "outlier_detection", name |-> "outlier_detection"]>>

RECURSIVE ExpectedChecks(_, _)
\* the names of the listed checks, from the i-th on, whose key is present
\* and truthy in cfg
ExpectedChecks(cfg, i) ==
    IF i > Len(ListedChecks) THEN <<>>
    ELSE (IF ListedChecks[i].key \in DOMAIN cfg /\ cfg[ListedChecks[i].key] # <<>>
          THEN <<ListedChecks[i].name>> ELSE <<>>)
         \o ExpectedChecks(cfg, i + 1)

Calls == {history[i] : i \in 1..Len(history)}

\* C1: a call that completes normally appends to checks_performed exactly
\* one name per check whose config key is present and truthy, whether or not
\* the check found issues, in the fixed order duplicate_check,
\* required_columns_check, null_handling, type_validation, range_validation,
\* pattern_validation, outlier_detection; other checks append nothing.
C1_ChecksPerformedInOrder ==
    \A call \in Calls :
        call.status = "returned" =>
            call.checks_performed = ExpectedChecks(call.config, 1)

\* a call with all seven checks ran to completion, some of them finding
\* issues
C1_Witness ==
    \E call \in Calls :
        /\ call.status = "returned"
        /\ Len(call.checks_performed) = 7
        /\ Len(call.issues_found) \in 1..6

\* the required columns the working table lacks
MissingColumns == SeqToSet(config["required_columns"]) \ ColumnSet(cleaned_df)

\* C3: when required_columns is configured and a listed column is absent
\* from the table the check sees, the call appends exactly one
\* missing_columns issue listing exactly the absent names, raises, returns
\* no table, and appends nothing else: required_columns_check is not
\* appended, no later check runs and rows_cleaned is not updated.
C3_MissingColumnsAreFatal ==
    [][(/\ pc = "required_columns"
        /\ Truthy(config, "required_columns")
        /\ MissingColumns # {})
       => /\ quality_report'.issues_found =
                Append(quality_report.issues_found,
                       [type |-> "missing_columns", columns |-> MissingColumns])
          /\ quality_report'.checks_performed = quality_report.checks_performed
          /\ quality_report'.rows_cleaned = quality_report.rows_cleaned
          /\ result'.status = "raised"
          /\ result'.table = EmptyTable
          /\ pc' = "idle"]_vars

\* a call raised at the required-columns check after the duplicate check
\* had recorded an issue, with later checks configured
C3_Witness ==
    \E call \in Calls :
        /\ call.status = "raised"
        /\ Len(call.issues_found) = 2
        /\ call.issues_found[2].type = "missing_columns"
        /\ call.issues_found[2].columns = {"zz"}
        /\ "outlier_detection" \in DOMAIN call.config
        /\ call.checks_performed = <<"duplicate_check">>
        /\ pc = "idle"
        /\ result.status = "raised"

\* the last call failed at the required-columns check
FailedOnRequiredColumns ==
    /\ pc = "idle"
    /\ result.status = "raised"
    /\ history[Len(history)].issues_found # <<>>
    /\ LET issues == history[Len(history)].issues_found
       IN  issues[Len(issues)].type = "missing_columns"

\* C4 as stated: no mutating check runs before the required-columns check,
\* so whenever a call fails fatally the working table equals the input.
C4_Original == FailedOnRequiredColumns => cleaned_df = df

\* C4: only the duplicate check runs before the required-columns check; when
\* a call fails at the required-columns check, the working table is the
\* input table as the duplicate check left it (the input itself when the
\* duplicate check is disabled), and no other check has touched it.
C4_OnlyDuplicatesPrecede ==
    FailedOnRequiredColumns =>
        cleaned_df =
            IF Truthy(config, "check_duplicates")
            THEN _handle_duplicates([df |-> df, report |-> entry.report, error |-> "",
                                     caller |-> caller],
                                    config["check_duplicates"]).df
            ELSE df

\* a call failed at the required-columns check with a working table from
\* which the duplicate check had removed rows, null handling being configured
C4_Witness ==
    /\ FailedOnRequiredColumns
    /\ Len(cleaned_df.rows) < Len(df.rows)
    /\ Truthy(config, "null_handling")
    /\ \E i \in 1..Len(df.rows) : IsNA(df.rows[i]["a"])

\* the checks whose config value maps columns to settings
MappingKeys ==
    {"null_handling", "type_validation", "range_checks", "pattern_validation",
     "outlier_detection"}

\* the columns that the value of a key names
NamedColumns(key, value) ==
    CASE key = "check_duplicates" ->
            IF "subset" \in DOMAIN value THEN SeqToSet(value["subset"]) ELSE {}
      [] key = "required_columns" -> SeqToSet(value)
      [] OTHER -> {value[i].col : i \in 1..Len(value)}

\* the items of a mapping whose column the table has
PresentItems(items, t) == SelectSeq(items, LAMBDA item : HasColumn(t, item.col))

\* C5 as stated: in every check other than required-columns, a configured
\* column that the current table lacks is skipped: no issue is recorded for
\* it, no failure is raised, and the pipeline continues with the remaining
\* columns and checks (so the check does what it does on the config without
\* that column).
C5_AbsentColumnsAreSkipped ==
    [][\A key \in DOMAIN Defaults \ {"required_columns"} :
          (/\ pc = key
           /\ Truthy(config, key)
           /\ ~(NamedColumns(key, config[key]) \subseteq ColumnSet(cleaned_df)))
          => IF key \in MappingKeys
             THEN LET skipped == RunCheck(key, Working,
                                          PresentItems(config[key], cleaned_df))
                  IN  /\ cleaned_df' = skipped.df
                      /\ quality_report' = skipped.report
                      /\ skipped.error = "" => pc' # "idle"
             ELSE /\ pc' # "idle"
                  /\ result'.status # "raised"]_vars

\* every column that the config of a call names is a column of its table
NamesOnlyPresentColumns(call) ==
    \A key \in DOMAIN call.config :
        call.config[key] # <<>> =>
            NamedColumns(key, call.config[key]) \subseteq ColumnSet(call.df)

\* C6 as stated: only the required-columns check can fail fatally; a call
\* whose config names only columns of the table (so that its required
\* columns are all present) completes normally and returns a table.
C6_OnlyRequiredColumnsIsFatal ==
    \A call \in Calls : NamesOnlyPresentColumns(call) => call.status = "returned"

Disabled(key) == ~(key \in DOMAIN config /\ config[key] # <<>>)

\* C9: a check whose config key is absent or falsy (an empty mapping or
\* list included) leaves the working table as it is and appends nothing to
\* checks_performed or issues_found; with a config of no truthy key the
\* returned table equals the input and the call appends nothing to the lists.
C9_DisabledChecksAreNoOps ==
    /\ [][\A key \in DOMAIN Defaults :
             (pc = key /\ Disabled(key))
             => /\ cleaned_df' = cleaned_df
                /\ quality_report'.issues_found = quality_report.issues_found
                /\ quality_report'.checks_performed = quality_report.checks_performed
                /\ pc' # "idle"]_vars
    /\ [](\A call \in Calls :
             (\A key \in DOMAIN call.config : call.config[key] = <<>>)
             => /\ call.status = "returned"
                /\ call.table = call.df
                /\ call.issues_found = <<>>
                /\ call.checks_performed = <<>>)

\* a call returned whose config holds empty values beside truthy ones, the
\* truthy ones having changed the table
C9_Witness ==
    \E call \in Calls :
        /\ call.status = "returned"
        /\ \E key \in DOMAIN call.config : call.config[key] = <<>>
        /\ Len(call.checks_performed) = 3
        /\ call.table # call.df

(***************************************************************************)
(* Properties of the session.                                              *)
(***************************************************************************)
RECURSIVE Concat(_)
Concat(seqs) == IF seqs = <<>> THEN <<>> ELSE Head(seqs) \o Concat(Tail(seqs))

\* C2: the report is created once per session and never reset: between
\* calls, issues_found and checks_performed are the concatenation, in call
\* order, of what each call appended (calls that failed included); no step
\* of a call shortens or rewrites either list; every call returns the report
\* object that the constructor created; timestamp keeps its construction
\* value.
C2_ReportAccumulates ==
    /\ [](pc = "idle" =>
            /\ quality_report.issues_found =
                  Concat([i \in 1..Len(history) |-> history[i].issues_found])
            /\ quality_report.checks_performed =
                  Concat([i \in 1..Len(history) |-> history[i].checks_performed]))
    /\ [][/\ Len(quality_report'.issues_found) >= Len(quality_report.issues_found)
          /\ SubSeq(quality_report'.issues_found, 1, Len(quality_report.issues_found))
                = quality_report.issues_found
          /\ Len(quality_report'.checks_performed) >= Len(quality_report.checks_performed)
          /\ SubSeq(quality_report'.checks_performed, 1,
                    Len(quality_report.checks_performed))
                = quality_report.checks_performed]_vars
    /\ [](/\ quality_report.timestamp = 0
          /\ quality_report.id = ReportObject
          /\ result.status = "returned" => result.report = ReportObject)

\* a second call returned on a session whose first call had failed, both
\* having appended issues, at a later time than the construction
C2_Witness ==
    /\ Len(history) = 2
    /\ history[1].status = "raised"
    /\ history[1].issues_found # <<>>
    /\ history[2].status = "returned"
    /\ history[2].issues_found # <<>>
    /\ history[2].checks_performed # <<>>
    /\ Len(quality_report.issues_found) >= 2
    /\ result.status = "returned"
    /\ now > quality_report.timestamp

(***************************************************************************)
(* A returned table validated again with the same config.                  *)
(***************************************************************************)
\* tables for the checks that remove rows
RemoveTables ==
    TablesOf({Num(0), Num(1), Num(3)}, {Text("x")}, MaxRemoveRows)
    \cup TablesOf({Num(1), NA}, {Text("7"), Text("x")}, MaxMixedRows)

RemoveOptions ==
    [check_duplicates |->
        {DupDict(subset, keep, "remove") :
            subset \in {<<>>, <<"a">>}, keep \in {"first", "last", "false"}},
     null_handling |-> {<<NullItem("a", Strategy("drop_rows"))>>},
     range_checks |->
        {<<RangeItem("a", rc)>> :
            rc \in {[min |-> Num(1), action |-> "remove"],
                    [max |-> Num(1), action |-> "remove"],
                    [min |-> Num(1), max |-> Num(1), action |-> "remove"]}},
     pattern_validation |->
        {<<PatternItem("s", [pattern |-> DigitsPattern, action |-> "remove"])>>,
         <<PatternItem("a", [pattern |-> DigitsOnlyPattern, action |-> "remove"])>>},
     outlier_detection |->
        {<<OutlierItem("a", [method |-> "iqr", action |-> "remove"])>>,
         <<OutlierItem("a", [method |-> "zscore", threshold |-> Num(1),
                             action |-> "remove"])>>}]

\* the value of a key in the configs of several removing checks
RemoveDefault(key) ==
    CASE key = "check_duplicates" -> DupDict(<<>>, "first", "remove")
      [] key = "null_handling" -> <<NullItem("a", Strategy("drop_rows"))>>
      [] key = "range_checks" ->
            <<RangeItem("a", [max |-> Num(1), action |-> "remove"])>>
      [] key = "pattern_validation" ->
            <<PatternItem("s", [pattern |-> DigitsPattern, action |-> "remove"])>>
      [] key = "outlier_detection" ->
            <<OutlierItem("a", [method |-> "iqr", action |-> "remove"])>>

RemoveConfigs ==
    UNION {{[k \in {key} |-> opt] : opt \in RemoveOptions[key]} :
              key \in DOMAIN RemoveOptions}
    \cup {[k \in K |-> RemoveDefault(k)] :
             K \in {{"check_duplicates", "null_handling", "range_checks",
                     "pattern_validation"},
                    {"null_handling", "outlier_detection"},
                    {"check_duplicates", "pattern_validation", "outlier_detection"},
                    DOMAIN RemoveOptions}}

RemoveCall ==
    /\ pc = "idle"
    /\ history = <<>>
    /\ \E table \in RemoveTables, cfg \in RemoveConfigs : Call(table, cfg, FALSE)

SpecRemove == Init /\ [][RemoveCall \/ Rerun \/ Pipeline]_vars

\* tables for the checks that flag rows
FlagTables ==
    TablesOf({Num(0), Num(1), Num(3)}, {Text("x")}, MaxFlagRows)
    \cup TablesOf({Num(1), NA}, {Text("7"), Text("x")}, MaxMixedRows)

FlagOptions ==
    [check_duplicates |->
        {DupDict(subset, keep, "flag") :
            subset \in {<<>>, <<"a">>, <<"a", "s">>},
            keep \in {"first", "last", "false"}},
     range_checks |->
        {<<RangeItem("a", [min |-> Num(1)])>>,
         <<RangeItem("a", [max |-> Num(1), action |-> "flag"])>>},
     pattern_validation |->
        {<<PatternItem("s", [pattern |-> DigitsPattern, action |-> "flag"])>>,
         <<PatternItem("a", [pattern |-> DigitsOnlyPattern, action |-> "flag"])>>},
     outlier_detection |->
        {<<OutlierItem("a", [method |-> "iqr", action |-> "flag"])>>,
         <<OutlierItem("a", [method |-> "zscore", threshold |-> Num(1),
                             action |-> "flag"])>>}]

FlagDefault(key, subset) ==
    CASE key = "check_duplicates" -> DupDict(subset, "first", "flag")
      [] key = "range_checks" -> <<RangeItem("a", [max |-> Num(1)])>>
      [] key = "pattern_validation" ->
            <<PatternItem("s", [pattern |-> DigitsPattern, action |-> "flag"])>>
      [] key = "outlier_detection" ->
            <<OutlierItem("a", [method |-> "zscore", threshold |-> Num(1),
                                action |-> "flag"])>>

FlagConfigs ==
    UNION {{[k \in {key} |-> opt] : opt \in FlagOptions[key]} :
              key \in DOMAIN FlagOptions}
    \cup {[k \in DOMAIN FlagOptions |-> FlagDefault(k, subset)] :
             subset \in {<<>>, <<"a">>}}

FlagCall ==
    /\ pc = "idle"
    /\ history = <<>>
    /\ \E table \in FlagTables, cfg \in FlagConfigs : Call(table, cfg, FALSE)

SpecFlag == Init /\ [][FlagCall \/ Rerun \/ Pipeline]_vars

(***************************************************************************)
(* The duplicate check.                                                    *)
(***************************************************************************)
\* the rows of t that equal row i on the columns of key
Group(t, key, i) ==
    {j \in 1..Len(t.rows) : \A c \in key : t.rows[j][c] = t.rows[i][c]}

Earliest(S) == CHOOSE i \in S : \A j \in S : i <= j

Latest(S) == CHOOSE i \in S : \A j \in S : j <= i

\* the rows the specification marks as duplicates
Marked(t, key, keep) ==
    {i \in 1..Len(t.rows) :
        CASE keep = "first" -> i # Earliest(Group(t, key, i))
          [] keep = "last"  -> i # Latest(Group(t, key, i))
          [] keep = "false" -> Cardinality(Group(t, key, i)) >= 2}

RECURSIVE Surviving(_, _, _)
\* the rows of t from the i-th on that are not in marked, in their order
Surviving(t, marked, i) ==
    IF i > Len(t.rows) THEN <<>>
    ELSE (IF i \in marked THEN <<>> ELSE <<t.rows[i]>>)
         \o Surviving(t, marked, i + 1)

\* the duplicate check has just run on the input of the call
AfterDuplicateCheck ==
    /\ pc = "required_columns"
    /\ "check_duplicates" \in DOMAIN config
    /\ DOMAIN config["check_duplicates"] # {}

\* C10: the duplicate check marks, of every group of rows equal on the
\* subset columns (all columns without a subset), all but the earliest for
\* keep=first, all but the latest for keep=last and all rows of a group of
\* two or more for keep=false; it appends one duplicates issue with the
\* number of marked rows as count if that number is positive and no issue
\* otherwise; with action=remove its output is the unmarked rows in their
\* original order
C10_DuplicateCheck ==
    AfterDuplicateCheck =>
        LET cfg == config["check_duplicates"]
            key == IF "subset" \in DOMAIN cfg THEN SeqToSet(cfg["subset"])
                   ELSE SeqToSet(df.columns)
            keep == IF "keep" \in DOMAIN cfg THEN cfg["keep"] ELSE "first"
            marked == Marked(df, key, keep)
            issues == Appended(quality_report.issues_found,
                               entry.report.issues_found)
        IN  /\ IF marked = {} THEN issues = <<>>
               ELSE /\ Len(issues) = 1
                    /\ issues[1].type = "duplicates"
                    /\ issues[1].count = Cardinality(marked)
            /\ "action" \in DOMAIN cfg /\ cfg["action"] = "remove" =>
                   cleaned_df.rows = Surviving(df, marked, 1)

\* rows equal on column "a" only are told apart by keep=last: of three
\* rows the latest is the one that is left
C10_Witness ==
    /\ AfterDuplicateCheck
    /\ config["check_duplicates"] =
           DupDict(<<"a">>, "last", "remove")
    /\ Len(df.rows) = 3
    /\ df.rows[1] # df.rows[3]
    /\ cleaned_df.rows = <<df.rows[3]>>
    /\ Len(quality_report.issues_found) = 1
    /\ quality_report.issues_found[1].count = 2

(***************************************************************************)
(* Validating a returned table again.                                      *)
(***************************************************************************)
\* C7: when a table returned under a config of removing actions is
\* validated again with the same config, the second call returns, appends
\* no issue and returns the rows it was given
C7_RemoveIsIdempotent ==
    \A i \in 2..Len(history) :
        history[i].rerun =>
            /\ history[i].status = "returned"
            /\ history[i].issues_found = <<>>
            /\ history[i].table.rows = history[i - 1].table.rows

\* C8: when a table returned under a config of flagging actions is
\* validated again with the same config, the second call records the
\* issues of the first and returns the same indicator columns
C8_FlagIsIdempotent ==
    \A i \in 2..Len(history) :
        history[i].rerun =>
            /\ history[i].status = "returned"
            /\ history[i].issues_found = history[i - 1].issues_found
            /\ history[i].table = history[i - 1].table

(***************************************************************************)
(* Calls that enable one or two checks on tables chosen for them.          *)
(***************************************************************************)
MaxNullRows == 3
MaxTypeRows == 2
MaxRangeRows == 3
MaxPatternRows == 3
MaxOutlierRows == 4

\* the tables and configs of each family of calls
CheckInputs ==
    <<[tables  |-> TablesOf({Num(1), Num(3), NA}, {Text("x"), NA}, MaxNullRows),
       configs |->
           {[null_handling |-> <<NullItem(col, strategy)>>] :
                col \in {"a", "s"}, strategy \in Strategies}
           \cup {[null_handling |-> <<NullItem(cols[1], Strategy("drop_rows")),
                                      NullItem(cols[2], strategy)>>] :
                     cols \in {<<"a", "s">>, <<"s", "a">>},
                     strategy \in {Strategy("drop_rows"), Strategy("fill_mode")}}],
      [tables  |-> TablesOf({Num(1), Rat(3, 2), NA},
                            {Text("1"), Str(<<"3", ".", "5">>), Text("x")},
                            MaxTypeRows),
       configs |->
           {[type_validation |-> <<TypeItem(col, expected_type)>>] :
                col \in {"a", "s"}, expected_type \in {"int", "float"}}],
      [tables  |-> TablesOf({Num(1), Num(5), Num(9), NA}, {Text("x")},
                            MaxRangeRows),
       configs |->
           UNION {{[range_checks |-> <<RangeItem("a", rc)>>],
                   [type_validation |-> <<TypeItem("a", "int")>>,
                    range_checks |-> <<RangeItem("a", rc)>>]} :
                      rc \in {[min |-> Num(2), max |-> Num(8), action |-> "remove"],
                              [min |-> Num(8), max |-> Num(2), action |-> "remove"]}}],
      [tables  |-> TablesOf({Num(1)},
                            {Text("7"), Str(<<"7", "x">>), Text("x"), NA},
                            MaxPatternRows),
       configs |->
           {[pattern_validation |->
                <<PatternItem("s", [pattern |-> pattern, action |-> action])>>] :
                pattern \in {DigitsPattern, DigitsOnlyPattern},
                action \in {"remove", "flag"}}],
      [tables  |-> TablesOf({Num(0), Num(1), Num(3), NA}, {Text("x")},
                            MaxOutlierRows),
       configs |->
           {[outlier_detection |-> <<OutlierItem("a", oc)>>] :
                oc \in {[method |-> "iqr", action |-> "remove"],
                        [method |-> "iqr", multiplier |-> Rat(1, 2),
                         action |-> "remove"],
                        [action |-> "remove"]}}
           \cup {[outlier_detection |->
                      <<OutlierItem(col, [method |-> "iqr", action |-> "remove"])>>] :
                     col \in {"s", "zz"}}
           \cup {[type_validation |-> <<TypeItem("a", "int")>>,
                  outlier_detection |->
                      <<OutlierItem("a", [method |-> "iqr", action |-> "remove"])>>]}]>>

ChecksCall ==
    /\ pc = "idle"
    /\ history = <<>>
    /\ \E i \in 1..Len(CheckInputs) :
           \E table \in CheckInputs[i].tables, cfg \in CheckInputs[i].configs :
               Call(table, cfg, FALSE)

SpecChecks == Init /\ [][ChecksCall \/ Pipeline]_vars

(***************************************************************************)
(* Null handling.                                                          *)
(***************************************************************************)
\* the statistic of a fill strategy over the non-missing cells of a column
Statistic(cells, strategy) ==
    CASE strategy.kind = "fill_mean" -> Mean(cells)
      [] strategy.kind = "fill_median" -> Median(cells)
      [] strategy.kind = "fill_mode" ->
            IF Mode(cells) = <<>> THEN NA ELSE Mode(cells)[1]
      [] OTHER -> strategy.fill_value

\* the null-handling mapping is one fill strategy for a present column that
\* has a missing value
OneFill(col, strategy) ==
    /\ pc = "null_handling"
    /\ Truthy(config, "null_handling")
    /\ config["null_handling"] = <<NullItem(col, strategy)>>
    /\ strategy.kind # "drop_rows"
    /\ HasColumn(cleaned_df, col)
    /\ \E i \in 1..Len(cleaned_df.rows) : IsNA(cleaned_df.rows[i][col])

\* what C11 states of the step that fills col
Filled(col, strategy) ==
    /\ pc' = "type_validation"
    /\ Len(cleaned_df'.rows) = Len(cleaned_df.rows)
    /\ \A i \in 1..Len(cleaned_df.rows) :
           /\ ~IsNA(cleaned_df'.rows[i][col])
           /\ cleaned_df'.rows[i][col] =
                  IF IsNA(cleaned_df.rows[i][col])
                  THEN Statistic(Column(cleaned_df, col), strategy)
                  ELSE cleaned_df.rows[i][col]
    /\ Len(quality_report'.issues_found) = Len(quality_report.issues_found) + 1
    /\ LET issue == quality_report'.issues_found[Len(quality_report'.issues_found)]
       IN  issue.type = "null_values" /\ issue.column = col

\* C11 as stated: null handling with a fill strategy (fill_mean,
\* fill_median, fill_mode or a fill_value), for a listed column of the table
\* with at least one missing value: the row count is unchanged, the column
\* has no missing value left, every previously missing cell holds the
\* statistic of the column's non-missing values (or the literal), every
\* other cell of the column is unchanged, and exactly one null_values issue
\* is recorded for the column.
C11_FillLeavesNoMissing ==
    [][\A col \in {"a", "s"}, strategy \in Strategies :
          OneFill(col, strategy) => Filled(col, strategy)]_vars

\* the null_values issues of the items of a mapping, each measured on the
\* rows of t (given by their indices) that the drop_rows strategies of the
\* items before it left
RECURSIVE ExpectedNullIssues(_, _, _)
ExpectedNullIssues(t, alive, items) ==
    IF items = <<>> THEN <<>>
    ELSE LET missing == {i \in alive : IsNA(t.rows[i][Head(items).col])}
         IN  (IF missing = {} THEN <<>>
              ELSE <<[type |-> "null_values",
                      column |-> Head(items).col,
                      count |-> Cardinality(missing),
                      percentage |-> Percentage(Cardinality(missing),
                                                Cardinality(alive)),
                      strategy |-> Head(items).strategy]>>)
             \o ExpectedNullIssues(
                    t,
                    IF Head(items).strategy.kind = "drop_rows"
                    THEN alive \ missing ELSE alive,
                    Tail(items))

IsPrefix(s, t) == Len(s) <= Len(t) /\ s = SubSeq(t, 1, Len(s))

\* C12: null handling processes the columns in mapping order against the
\* current table: the count and the percentage of each null_values issue
\* are measured on the rows that survived the drop_rows strategies of the
\* earlier columns, so a row removed for an earlier column is not counted
\* for a later one and a later column whose missing values were all in
\* removed rows produces no issue.
C12_NullsInMappingOrder ==
    [][(pc = "null_handling" /\ Truthy(config, "null_handling"))
       => LET expected ==
                  ExpectedNullIssues(cleaned_df, 1..Len(cleaned_df.rows),
                                     config["null_handling"])
              appended == Appended(quality_report'.issues_found,
                                   quality_report.issues_found)
          IN  /\ IsPrefix(appended, expected)
              /\ pc' = "type_validation" => appended = expected]_vars

\* null handling dropped the rows with a missing "a" and with them every
\* missing "s", so that the later column "s" has no issue
C12_Witness ==
    /\ pc = "type_validation"
    /\ Truthy(config, "null_handling")
    /\ Len(config["null_handling"]) = 2
    /\ config["null_handling"][1] = NullItem("a", Strategy("drop_rows"))
    /\ config["null_handling"][2].col = "s"
    /\ \E i \in 1..Len(df.rows) : IsNA(df.rows[i]["s"])
    /\ Len(cleaned_df.rows) \in 1..(Len(df.rows) - 1)
    /\ Len(quality_report.issues_found) = 1
    /\ quality_report.issues_found[1].column = "a"

(***************************************************************************)
(* Type validation.                                                        *)
(***************************************************************************)
\* the number that a cell of a column of this dtype stands for, or NA
NumberOf(c, dtype) == ToNumeric(<<c>>, dtype).cells[1]

\* type validation is one conversion of a present column to int or float
OneConversion(col, expected_type) ==
    /\ pc = "type_validation"
    /\ Truthy(config, "type_validation")
    /\ config["type_validation"] = <<TypeItem(col, expected_type)>>
    /\ expected_type \in {"int", "float"}
    /\ HasColumn(cleaned_df, col)

\* C13 as stated: type validation with target int or float is coercive for
\* every input column: a value that cannot be converted becomes missing, the
\* other values are converted, the row count is unchanged, no failure is
\* raised and no type_conversion_error issue is recorded because of
\* individual values.
C13_NumericConversionIsCoercive ==
    [][\A col \in {"a", "s"}, expected_type \in {"int", "float"} :
          OneConversion(col, expected_type)
          => /\ pc' = "range_checks"
             /\ quality_report'.issues_found = quality_report.issues_found
             /\ Len(cleaned_df'.rows) = Len(cleaned_df.rows)
             /\ \A i \in 1..Len(cleaned_df.rows) :
                    LET number == NumberOf(cleaned_df.rows[i][col],
                                           cleaned_df.dtypes[col])
                        after == cleaned_df'.rows[i][col]
                    IN  IF IsNA(number) THEN IsNA(after)
                        ELSE IF expected_type = "float" THEN after = number
                        ELSE after.t = "num" /\ after.d = 1]_vars

(***************************************************************************)
(* Range validation.                                                       *)
(***************************************************************************)
RECURSIVE IsSubsequence(_, _)
\* s is t without some of its elements
IsSubsequence(s, t) ==
    IF s = <<>> THEN TRUE
    ELSE IF t = <<>> THEN FALSE
    ELSE IF Head(s) = Head(t) THEN IsSubsequence(Tail(s), Tail(t))
    ELSE IsSubsequence(s, Tail(t))

\* the rows of t whose value in col is not missing and is related to a limit
Below(t, col, limit) ==
    {i \in 1..Len(t.rows) :
        ~IsNA(t.rows[i][col]) /\ RLt(t.rows[i][col], limit)}

Above(t, col, limit) ==
    {i \in 1..Len(t.rows) :
        ~IsNA(t.rows[i][col]) /\ RLt(limit, t.rows[i][col])}

RangeIssues(col, violation, count, threshold) ==
    IF count = 0 THEN <<>>
    ELSE <<[type |-> "range_violation", column |-> col, violation |-> violation,
            count |-> count, threshold |-> threshold]>>

\* the range check is one column with min, max and action remove
MinMaxRemove(col, range_config) ==
    /\ pc = "range_checks"
    /\ Truthy(config, "range_checks")
    /\ config["range_checks"] = <<RangeItem(col, range_config)>>
    /\ DOMAIN range_config = {"min", "max", "action"}
    /\ range_config["action"] = "remove"
    /\ HasColumn(cleaned_df, col)

\* C14: range validation with min, max and action remove: the min pass runs
\* first and the max pass on the table it left; a below_minimum issue is
\* recorded iff some row has a value < min, with the number of such rows,
\* and after it an above_maximum issue iff some surviving row has a value
\* > max, with the number of such surviving rows; afterwards every
\* surviving row with a non-missing value v has min <= v <= max, and the
\* surviving rows keep their relative order.
C14_MinThenMaxRemove ==
    [][\A rc \in {config["range_checks"][i].range_config :
                     i \in 1..(IF Truthy(config, "range_checks")
                               THEN Len(config["range_checks"]) ELSE 0)} :
          MinMaxRemove("a", rc)
          => LET below == Below(cleaned_df, "a", rc["min"])
                 above == Above(cleaned_df, "a", rc["max"]) \ below
             IN  /\ pc' = "pattern_validation"
                 /\ Appended(quality_report'.issues_found,
                             quality_report.issues_found)
                      = RangeIssues("a", "below_minimum", Cardinality(below),
                                    rc["min"])
                        \o RangeIssues("a", "above_maximum", Cardinality(above),
                                       rc["max"])
                 /\ Below(cleaned_df', "a", rc["min"]) = {}
                 /\ Above(cleaned_df', "a", rc["max"]) = {}
                 /\ IsSubsequence(cleaned_df'.rows, cleaned_df.rows)]_vars

\* the min pass removed a row, and the max pass another of those it left
C14_Witness ==
    /\ pc = "pattern_validation"
    /\ Truthy(config, "range_checks")
    /\ Len(quality_report.issues_found) = 2
    /\ quality_report.issues_found[1].violation = "below_minimum"
    /\ quality_report.issues_found[2].violation = "above_maximum"
    /\ Len(df.rows) = 3
    /\ Len(cleaned_df.rows) = 1
    /\ ~IsNA(cleaned_df.rows[1]["a"])

(***************************************************************************)
(* Pattern validation.                                                     *)
(***************************************************************************)
\* the pattern matches the whole of the text
FullMatch(pattern, text) == Len(text) \in MatchEnds(pattern.atoms, text, 0)

\* the rows of t whose text in col the pattern does not match as a whole
NotFullyMatched(t, col, pattern) ==
    {i \in 1..Len(t.rows) :
        ~FullMatch(pattern, PyStr(t.rows[i][col], t.dtypes[col]))}

\* pattern validation is one pattern for a present column
OnePattern(col, pattern_config) ==
    /\ pc = "pattern_validation"
    /\ Truthy(config, "pattern_validation")
    /\ config["pattern_validation"] = <<PatternItem(col, pattern_config)>>
    /\ HasColumn(cleaned_df, col)

\* the configured patterns of the current call
PatternConfigs ==
    IF Truthy(config, "pattern_validation")
    THEN {config["pattern_validation"][i].pattern_config :
             i \in 1..Len(config["pattern_validation"])}
    ELSE {}

\* C15 as stated: pattern validation uses full-string matching: a value is
\* counted valid iff the whole of its textual representation matches the
\* pattern, so a value with a matching prefix followed by extra characters
\* is counted invalid, as is a value whose text does not match at all (the
\* text of a missing value included); the count of the pattern_violation
\* issue is the number of such values, and no issue is recorded without one.
C15_FullStringMatching ==
    [][\A pattern_config \in PatternConfigs :
          OnePattern("s", pattern_config)
          => LET invalid == NotFullyMatched(cleaned_df, "s",
                                            pattern_config["pattern"])
                 appended == Appended(quality_report'.issues_found,
                                      quality_report.issues_found)
             IN  IF invalid = {} THEN appended = <<>>
                 ELSE /\ Len(appended) = 1
                      /\ appended[1].type = "pattern_violation"
                      /\ appended[1].count = Cardinality(invalid)]_vars

\* the rows of t that the check counts invalid: the pattern does not match
\* their text in col
Invalid(t, col, pattern) ==
    {i \in 1..Len(t.rows) :
        ~ReMatch(pattern, PyStr(t.rows[i][col], t.dtypes[col]))}

\* C16: pattern validation with action flag on a column that has an invalid
\* value: the row count and all existing cells are unchanged, exactly one
\* pattern_violation issue is recorded for the column, with the number of
\* invalid rows and the pattern, and a column named {column}_invalid_format
\* is added that is true on exactly the invalid rows.
C16_FlagMarksInvalidRows ==
    [][\A pattern_config \in PatternConfigs :
          (/\ OnePattern("s", pattern_config)
           /\ pattern_config["action"] = "flag"
           /\ Invalid(cleaned_df, "s", pattern_config["pattern"]) # {})
          => /\ pc' = "outlier_detection"
             /\ Len(cleaned_df'.rows) = Len(cleaned_df.rows)
             /\ \A i \in 1..Len(cleaned_df.rows) :
                    /\ \A c \in ColumnSet(cleaned_df) :
                           cleaned_df'.rows[i][c] = cleaned_df.rows[i][c]
                    /\ cleaned_df'.rows[i]["s_invalid_format"] =
                           Bool(i \in Invalid(cleaned_df, "s",
                                              pattern_config["pattern"]))
             /\ ColumnSet(cleaned_df') =
                    ColumnSet(cleaned_df) \cup {"s_invalid_format"}
             /\ Appended(quality_report'.issues_found,
                         quality_report.issues_found)
                  = <<[type |-> "pattern_violation",
                       column |-> "s",
                       count |-> Cardinality(Invalid(cleaned_df, "s",
                                                     pattern_config["pattern"])),
                       pattern |-> pattern_config["pattern"]]>>]_vars

\* a table was flagged in which some rows are invalid and others are not
C16_Witness ==
    /\ pc = "outlier_detection"
    /\ Truthy(config, "pattern_validation")
    /\ HasColumn(cleaned_df, "s_invalid_format")
    /\ Len(cleaned_df.rows) = 3
    /\ \E i, j \in 1..3 :
           /\ cleaned_df.rows[i]["s_invalid_format"] = Bool(TRUE)
           /\ IsNA(cleaned_df.rows[i]["s"])
           /\ cleaned_df.rows[j]["s_invalid_format"] = Bool(FALSE)
    /\ Len(quality_report.issues_found) = 1
    /\ quality_report.issues_found[1].count = 2

(***************************************************************************)
(* Outlier detection.                                                      *)
(***************************************************************************)
RECURSIVE Without(_, _)
\* the rows without those at the positions of removed, in their order
Without(rows, removed) ==
    IF rows = <<>> THEN <<>>
    ELSE Without(SubSeq(rows, 1, Len(rows) - 1), removed)
         \o (IF Len(rows) \in removed THEN <<>> ELSE <<rows[Len(rows)]>>)

\* the rows whose value is below Q1 - multiplier * IQR or above
\* Q3 + multiplier * IQR
OutsideFences(cells, multiplier, Q1, Q3) ==
    {i \in 1..Len(cells) :
        /\ ~IsNA(cells[i])
        /\ ~IsNA(Q1)
        /\ \/ RLt(cells[i], RSub(Q1, RMul(multiplier, RSub(Q3, Q1))))
           \/ RLt(RAdd(Q3, RMul(multiplier, RSub(Q3, Q1))), cells[i])}

\* the outliers of a column by the quartiles of its current values
IqrRemoved(t, col, outlier_config) ==
    OutsideFences(Column(t, col), Get(outlier_config, "multiplier", Rat(3, 2)),
                  Quantile(Column(t, col), 1, 4), Quantile(Column(t, col), 3, 4))

\* outlier detection is one setting for one column
OneOutlier(col, outlier_config) ==
    /\ pc = "outlier_detection"
    /\ Truthy(config, "outlier_detection")
    /\ config["outlier_detection"] = <<OutlierItem(col, outlier_config)>>

\* the configured outlier settings of the current call
OutlierConfigs ==
    IF Truthy(config, "outlier_detection")
    THEN {config["outlier_detection"][i].outlier_config :
             i \in 1..Len(config["outlier_detection"])}
    ELSE {}

Numeric(t, col) == t.dtypes[col] \in {"int64", "float64", "Int64"}

\* C18 as stated: outlier detection skips a configured column iff the
\* column is absent or non-numeric when the check runs: every present
\* numeric column is evaluated, a column that type validation converted to
\* int in the same call and a column with missing values included.
C18_SkipsOnlyAbsentOrNonNumeric ==
    [][\A col \in {"a", "s", "zz"}, oc \in OutlierConfigs :
          (/\ OneOutlier(col, oc)
           /\ Get(oc, "method", "iqr") = "iqr"
           /\ oc["action"] = "remove")
          => LET appended == Appended(quality_report'.issues_found,
                                      quality_report.issues_found)
             IN  IF HasColumn(cleaned_df, col) /\ Numeric(cleaned_df, col)
                 THEN /\ cleaned_df'.rows =
                             Without(cleaned_df.rows,
                                     IqrRemoved(cleaned_df, col, oc))
                      /\ appended = <<>> <=> IqrRemoved(cleaned_df, col, oc) = {}
                 ELSE /\ cleaned_df' = cleaned_df
                      /\ appended = <<>>]_vars

(***************************************************************************)
(* Row accounting.                                                         *)
(***************************************************************************)
\* the setting of a column in the mapping of a key
SettingOf(cfg, key, field, col) ==
    LET item == CHOOSE item \in SeqToSet(cfg[key]) : item.col = col
    IN  item[field]

\* the issue was recorded by a step that removes the rows it counts
Removing(issue, cfg) ==
    CASE issue.type = "duplicates" ->
            Get(cfg["check_duplicates"], "action", "") = "remove"
      [] issue.type = "null_values" -> issue.strategy.kind = "drop_rows"
      [] issue.type = "range_violation" ->
            Get(SettingOf(cfg, "range_checks", "range_config", issue.column),
                "action", "flag") = "remove"
      [] issue.type = "pattern_violation" ->
            Get(SettingOf(cfg, "pattern_validation", "pattern_config",
                          issue.column),
                "action", "flag") = "remove"
      [] issue.type = "outliers" ->
            Get(SettingOf(cfg, "outlier_detection", "outlier_config",
                          issue.column),
                "action", "flag") = "remove"
      [] OTHER -> FALSE

RECURSIVE RemovedCount(_, _)
\* the sum of the counts of the issues of removing steps
RemovedCount(issues, cfg) ==
    IF issues = <<>> THEN 0
    ELSE (IF Removing(Head(issues), cfg) THEN Head(issues).count ELSE 0)
         + RemovedCount(Tail(issues), cfg)

\* C19 as stated: after every call that completes normally, rows_processed
\* is the row count of the input table, rows_cleaned the row count of the
\* returned table, rows_cleaned <= rows_processed, and their difference is
\* the sum of the counts of the issues that the call appended for
\* row-removing steps.
C19_RowAccounting ==
    (pc = "idle" /\ result.status = "returned")
    => /\ quality_report.rows_processed = Len(df.rows)
       /\ quality_report.rows_cleaned = Len(result.table.rows)
       /\ quality_report.rows_cleaned <= quality_report.rows_processed
       /\ quality_report.rows_processed - quality_report.rows_cleaned
            = RemovedCount(history[Len(history)].issues_found, config)

(***************************************************************************)
(* The caller's table.                                                     *)
(***************************************************************************)
\* C20: validate_and_clean never modifies the caller's input table: for
\* every config (remove, flag, cap and fill actions included), and whether
\* the call completes or fails fatally, the caller's table has the rows,
\* row order, columns and cell values that were passed in (the checks work
\* on a copy taken when the call begins).
C20_InputIsNeverModified == caller.table = df

\* a call returned a table that its checks had changed in place, a cell of
\* "a" and an added indicator column, and the caller's table is as passed in
C20_Witness ==
    /\ pc = "idle"
    /\ result.status = "returned"
    /\ Len(df.rows) = 2
    /\ Len(cleaned_df.rows) = 2
    /\ HasColumn(cleaned_df, "s_invalid_format")
    /\ \E i \in 1..2 : cleaned_df.rows[i]["a"] # df.rows[i]["a"]
    /\ caller.table = df
    /\ ~HasColumn(caller.table, "s_invalid_format")

====
